---- MODULE Spec2Model ----
(***************************************************************************)
(* k8s-crd-mcp: the CRD-to-operation adapter.                              *)
(*                                                                         *)
(* Five specifications over one set of variables:                          *)
(*   SpecVersion  get_preferred_version applied to a CRD's version list    *)
(*   SpecPolicy   get_effective_methods applied to two policy maps         *)
(*   SpecFilter   filter_properties applied (twice) to a schema tree       *)
(*   SpecCall     the list, get, create and update functions applied to    *)
(*                their arguments and to what the cluster does             *)
(*   Spec         the process: main() loads the policy, add_k8s_resources  *)
(*                registers the tools CRD by CRD, then the server runs and *)
(*                dispatches calls to the registered tools                 *)
(* Each specification leaves the variables of the others at their idle     *)
(* values.                                                                 *)
(***************************************************************************)
EXTENDS Integers, Sequences, FiniteSets, TLC

VARIABLES
    versions,            \* crd.spec.versions handed to get_preferred_version
    preferred_version,   \* its result (NotCalled before the call)
    crd_name,            \* arguments of get_effective_methods
    crd_group,
    resource_policy,
    group_policy,
    effective_methods,   \* its result (NotCalled before the call)
    properties,          \* arguments of filter_properties
    remove_props,
    filtered_properties, \* filter_properties(properties, remove_props)
    refiltered,          \* filter_properties(filtered_properties, remove_props)
    pc,                  \* where main() is
    args_config,         \* --config: NoConfig or the file it names
    allowed_crds,        \* main()'s policy maps
    allowed_groups,
    crd_list,            \* what list_custom_resource_definition() returns
    next_crd,            \* index of the CRD the registration loop is at
    tools,               \* the FastMCP tool table: tool name -> tool
    call,                \* the tool function invoked and its arguments
    cluster,             \* what the client and the cluster do during that call
    request,             \* the request the call submits to the cluster
    result               \* what the call returns or raises

vars == << versions, preferred_version, crd_name, crd_group, resource_policy,
           group_policy, effective_methods, properties, remove_props,
           filtered_properties, refiltered, pc, args_config, allowed_crds,
           allowed_groups, crd_list, next_crd, tools, call, cluster, request, result >>

versionVars == << versions, preferred_version >>
policyVars  == << crd_name, crd_group, resource_policy, group_policy, effective_methods >>
filterVars  == << properties, remove_props, filtered_properties, refiltered >>
mainVars    == << pc, args_config, allowed_crds, allowed_groups, crd_list, next_crd, tools >>
callVars    == << call, cluster, request, result >>

\* A result variable holds NotCalled before the call and Returned(value) after.
NotCalled == << >>

Returned(x) == << x >>

\* The empty Python dict.
EmptyDict == << >>

\* No tool function has been invoked: no call, no answer, no request, no result.
NoCall == [ fn |-> "none" ]

NoOutcome == [ kind |-> "none" ]

NoRequest == [ endpoint |-> "none" ]

NoResult == [ status |-> "not_called" ]

Min(a, b) == IF a < b THEN a ELSE b

\* All sequences over S of length at most n.
RECURSIVE SeqsUpTo(_, _)
SeqsUpTo(S, n) ==
    IF n = 0 THEN { << >> }
    ELSE LET shorter == SeqsUpTo(S, n - 1)
         IN  shorter \cup { Append(s, x) : s \in { t \in shorter : Len(t) = n - 1 }, x \in S }

\* x in lst, for a Python list.
InList(x, lst) == \E i \in 1..Len(lst) : lst[i] = x

(***************************************************************************)
(* Version Resolver: utils.get_preferred_version                           *)
(***************************************************************************)
MaxVersions == 3

VersionNames == { "v1alpha1", "v1beta1", "v1" }

CrdVersion == [ name : VersionNames, served : BOOLEAN, storage : BOOLEAN ]

\* crd.spec.versions[0] of an empty list raises IndexError.
IndexError == "IndexError"

\* The served versions, in declaration order (lines 22-24).
ServedVersions(vs) == SelectSeq(vs, LAMBDA v : v.served)

\* The versions that are assigned to storage_version, in order (lines 23-26):
\* the storage test is nested in the served test.
ServedStorageVersions(vs) == SelectSeq(vs, LAMBDA v : v.served /\ v.storage)

\* A resolver that takes the first served version and never looks at storage.
PreferFirstServed(vs) ==
    IF ServedVersions(vs) # << >> THEN ServedVersions(vs)[1].name
    ELSE IF vs # << >> THEN vs[1].name
    ELSE IndexError

\* A resolver whose fallbacks take the last entry instead of the first.
PreferLastFallback(vs) ==
    LET stor == ServedStorageVersions(vs)
        srv  == ServedVersions(vs)
    IN  IF stor # << >> THEN stor[Len(stor)].name
        ELSE IF srv # << >> THEN srv[Len(srv)].name
        ELSE IF vs # << >> THEN vs[Len(vs)].name
        ELSE IndexError

\* get_preferred_version(crd), on crd.spec.versions. storage_version ends as the
\* last served version with storage set; the final fallback indexes versions[0].
get_preferred_version(vs) ==
    LET stor == ServedStorageVersions(vs)
        srv  == ServedVersions(vs)
    IN  IF stor # << >> THEN stor[Len(stor)].name
        ELSE IF srv # << >> THEN srv[1].name
        ELSE IF vs # << >> THEN vs[1].name
        ELSE IndexError

(***************************************************************************)
(* Access Policy Resolver: server.get_effective_methods                    *)
(***************************************************************************)
\* The list returned when nothing is configured (server.py line 145), also the
\* list the loader substitutes for an empty methods list (lines 69, 83).
DefaultMethods == << "docs", "list", "get", "create", "update" >>

\* key in d, for a Python dict modelled as a function.
HasKey(d, key) == key \in DOMAIN d

\* A resolver that consults the group map before the per-CRD map.
GroupFirstMethods(name, group, crds, groups) ==
    IF HasKey(groups, group) THEN groups[group]
    ELSE IF HasKey(crds, name) THEN crds[name]
    ELSE IF DOMAIN crds = {} /\ DOMAIN groups = {} THEN DefaultMethods
    ELSE << >>

\* A resolver whose allow-all rule forgets the "get" kind.
ShortDefaultMethods(name, group, crds, groups) ==
    IF HasKey(crds, name) THEN crds[name]
    ELSE IF HasKey(groups, group) THEN groups[group]
    ELSE IF DOMAIN crds = {} /\ DOMAIN groups = {} THEN << "docs", "list", "create", "update" >>
    ELSE << >>

\* A resolver that allows everything whenever neither map matches.
AllowUnmatchedMethods(name, group, crds, groups) ==
    IF HasKey(crds, name) THEN crds[name]
    ELSE IF HasKey(groups, group) THEN groups[group]
    ELSE DefaultMethods

\* get_effective_methods(crd_name, crd_group, allowed_crds, allowed_groups)
get_effective_methods(name, group, crds, groups) ==
    IF HasKey(crds, name) THEN crds[name]
    ELSE IF HasKey(groups, group) THEN groups[group]
    ELSE IF DOMAIN crds = {} /\ DOMAIN groups = {} THEN DefaultMethods
    ELSE << >>

(***************************************************************************)
(* Schema Reducer: utils.filter_properties                                 *)
(*                                                                         *)
(* A Python dict is a function from its keys; a value is wrapped in a      *)
(* one-element tuple and None is the empty tuple, so that "key absent" and *)
(* "key present with value None" (what to_dict() gives for an unset field) *)
(* are different inputs. JSON scalars are held as their literal text.      *)
(***************************************************************************)
None == << >>

Some(x) == << x >>

\* description[:100]
DescriptionLimit == 100

\* A string is the sequence of its characters (here digits).
Text(n) == [ i \in 1..n |-> i % 10 ]

\* Truthiness of a JSON scalar: filter(None, prop) drops every falsy entry.
Truthy(v) == v \notin { "null", "0", "false", "\"\"" }

\* s[:n]
Prefix(s, n) == SubSeq(s, 1, Min(Len(s), n))

\* The keys copied from a node when present and not None (line 59).
CopiedKeys == { "type", "description", "required", "items", "default" }

\* The property name that is always dropped (line 72).
DroppedProperties == { "hyperthreading" }

\* An enum filter that removes the first null only, as list.remove(None) would.
RemoveFirstNull(enum) ==
    IF \E i \in 1..Len(enum) : enum[i] = "null"
    THEN LET i == CHOOSE i \in 1..Len(enum) :
                      /\ enum[i] = "null"
                      /\ \A j \in 1..(i - 1) : enum[j] # "null"
         IN  SubSeq(enum, 1, i - 1) \o SubSeq(enum, i + 1, Len(enum))
    ELSE enum

\* list(filter(None, prop)) (line 58)
FilterEnum(enum) == SelectSeq(enum, Truthy)

\* A truncation that cuts at the wrong end: description[1:].
DropFirstCharacter(text) == SubSeq(text, 2, Len(text))

\* properties[key][:100] (line 66)
TruncateDescription(text) == Prefix(text, DescriptionLimit)

\* The keys of the reduced node (lines 57-60 and 68).
KeptKeys(node, remove) ==
    { key \in DOMAIN node :
        /\ node[key] # None
        /\ \/ key = "enum"
           \/ key \in CopiedKeys /\ key \notin remove
           \/ key = "properties" }

\* filter_properties(properties, remove_props). The recursive calls (lines 62
\* and 73) pass no remove_props, so below the root nothing is excluded.
RECURSIVE filter_properties(_, _)
\* A reducer that copies items as it finds it, without reducing it.
ItemsNotReduced(node, remove) ==
    [ key \in KeptKeys(node, remove) |->
        IF key = "enum" THEN Some(FilterEnum(node[key][1]))
        ELSE IF key = "description" THEN Some(TruncateDescription(node[key][1]))
        ELSE IF key = "properties"
             THEN Some([ name \in (DOMAIN node[key][1]) \ DroppedProperties |->
                            filter_properties(node[key][1][name], {}) ])
        ELSE node[key] ]

filter_properties(node, remove) ==
    [ key \in KeptKeys(node, remove) |->
        IF key = "enum" THEN Some(FilterEnum(node[key][1]))
        ELSE IF key = "items" THEN Some(filter_properties(node[key][1], {}))
        ELSE IF key = "description" THEN Some(TruncateDescription(node[key][1]))
        ELSE IF key = "properties"
             THEN Some([ name \in (DOMAIN node[key][1]) \ DroppedProperties |->
                            filter_properties(node[key][1][name], {}) ])
        ELSE node[key] ]

(***************************************************************************)
(* Idle values: what a specification leaves the other variables at.        *)
(***************************************************************************)
IdleVersion ==
    /\ versions = << >>
    /\ preferred_version = NotCalled

IdlePolicy ==
    /\ crd_name = ""
    /\ crd_group = ""
    /\ resource_policy = EmptyDict
    /\ group_policy = EmptyDict
    /\ effective_methods = NotCalled

IdleFilter ==
    /\ properties = EmptyDict
    /\ remove_props = {}
    /\ filtered_properties = NotCalled
    /\ refiltered = NotCalled

IdleMain ==
    /\ pc = "idle"
    /\ args_config = << >>
    /\ allowed_crds = EmptyDict
    /\ allowed_groups = EmptyDict
    /\ crd_list = << >>
    /\ next_crd = 0
    /\ tools = EmptyDict

IdleCall ==
    /\ call = NoCall
    /\ cluster = NoOutcome
    /\ request = NoRequest
    /\ result = NoResult

(***************************************************************************)
(* SpecVersion: get_preferred_version on every version list up to          *)
(* MaxVersions entries, any names and flags.                               *)
(***************************************************************************)
InitVersion ==
    /\ versions \in SeqsUpTo(CrdVersion, MaxVersions)
    /\ preferred_version = NotCalled
    /\ IdlePolicy /\ IdleFilter /\ IdleMain /\ IdleCall

ResolveVersion ==
    /\ preferred_version = NotCalled
    /\ preferred_version' = Returned(get_preferred_version(versions))
    /\ UNCHANGED << versions, policyVars, filterVars, mainVars, callVars >>

NextVersion == ResolveVersion

SpecVersion == InitVersion /\ [][NextVersion]_vars

(***************************************************************************)
(* SpecPolicy: get_effective_methods on every pair of policy maps over two *)
(* CRD names and two groups.                                               *)
(***************************************************************************)
PolicyCrdNames == { "x", "y" }

PolicyGroups == { "g", "h" }

\* The method lists a policy entry is drawn from; "watch" is not an operation kind.
MethodLists ==
    { << >>, << "get" >>, << "create", "get", "update" >>, << "list", "watch" >>, DefaultMethods }

\* Every dict from some of the keys to a method list.
PolicyMaps(keys) == UNION { [ S -> MethodLists ] : S \in SUBSET keys }

InitPolicy ==
    /\ crd_name \in PolicyCrdNames
    /\ crd_group \in PolicyGroups
    /\ resource_policy \in PolicyMaps(PolicyCrdNames)
    /\ group_policy \in PolicyMaps(PolicyGroups)
    /\ effective_methods = NotCalled
    /\ IdleVersion /\ IdleFilter /\ IdleMain /\ IdleCall

ResolveMethods ==
    /\ effective_methods = NotCalled
    /\ effective_methods' =
           Returned(get_effective_methods(crd_name, crd_group, resource_policy, group_policy))
    /\ UNCHANGED << crd_name, crd_group, resource_policy, group_policy,
                    versionVars, filterVars, mainVars, callVars >>

NextPolicy == ResolveMethods

SpecPolicy == InitPolicy /\ [][NextPolicy]_vars

(***************************************************************************)
(* SpecFilter: filter_properties on every schema tree of SchemaNodes, then *)
(* once more on its own result with the same remove_props.                 *)
(***************************************************************************)
MaxDepth == 2

\* A description longer than the limit, and a short one.
LongText == Text(DescriptionLimit + 7)

ShortText == Text(3)

\* The scalar part of a schema node: every key unset the way to_dict() reports
\* it; an object with a long description and a key the reducer does not know; a
\* string with an enum that holds nulls and other falsy values.
ScalarHeaders ==
    { [ type |-> None, description |-> None, required |-> None,
        default |-> None, enum |-> None ],
      [ type |-> Some("object"), description |-> Some(LongText),
        required |-> Some(<< "size" >>), format |-> Some("int32") ],
      [ type |-> Some("string"), description |-> Some(ShortText),
        default |-> Some("\"a\""),
        enum |-> Some(<< "null", "\"a\"", "0", "null", "\"\"", "false", "\"b\"" >>) ] }

\* The structural part of a node without children.
LeafStructures ==
    { EmptyDict,
      [ items |-> None, properties |-> None ],
      [ properties |-> Some(EmptyDict) ] }

\* A small node used as the second entry of a properties map.
SiblingLeaf == [ type |-> Some("integer"), enum |-> Some(<< "1", "null" >>) ]

\* The properties maps over a child: the child alone, under a kept or the
\* dropped name, or beside a sibling.
PropertyMaps(children) ==
    { [ n \in { "size" } |-> c ] : c \in children }
        \cup { [ n \in { "hyperthreading" } |-> c ] : c \in children }
        \cup { [ n \in { "size", "hyperthreading" } |->
                     IF n = "size" THEN c ELSE SiblingLeaf ] : c \in children }

\* The schema trees of depth at most d: a node has an items child, a properties
\* map, or both.
RECURSIVE SchemaNodes(_)
SchemaNodes(d) ==
    LET leaves == { h @@ st : h \in ScalarHeaders, st \in LeafStructures }
    IN  IF d = 0 THEN leaves
        ELSE LET children == SchemaNodes(d - 1)
             IN  leaves
                 \cup { h @@ [ items |-> Some(c) ] : h \in ScalarHeaders, c \in children }
                 \cup { h @@ [ properties |-> Some(m) ] :
                            h \in ScalarHeaders, m \in PropertyMaps(children) }
                 \cup { h @@ [ items |-> Some(c),
                               properties |-> Some([ n \in { "size" } |-> SiblingLeaf ]) ] :
                            h \in ScalarHeaders, c \in children }

\* remove_props as the tools pass it: nothing (docs, create), "required"
\* (update), and one more choice that excludes a nested and a truncated key.
RemoveChoices == { {}, { "required" }, { "items", "description" } }

InitFilter ==
    /\ properties \in SchemaNodes(MaxDepth)
    /\ remove_props \in RemoveChoices
    /\ filtered_properties = NotCalled
    /\ refiltered = NotCalled
    /\ IdleVersion /\ IdlePolicy /\ IdleMain /\ IdleCall

\* filter_properties(schema, remove_props)
Reduce ==
    /\ filtered_properties = NotCalled
    /\ filtered_properties' = Returned(filter_properties(properties, remove_props))
    /\ UNCHANGED << properties, remove_props, refiltered,
                    versionVars, policyVars, mainVars, callVars >>

\* filter_properties applied to the result of the first call.
ReduceAgain ==
    /\ filtered_properties # NotCalled
    /\ refiltered = NotCalled
    /\ refiltered' = Returned(filter_properties(filtered_properties[1], remove_props))
    /\ UNCHANGED << properties, remove_props, filtered_properties,
                    versionVars, policyVars, mainVars, callVars >>

NextFilter == Reduce \/ ReduceAgain

SpecFilter == InitFilter /\ [][NextFilter]_vars

(***************************************************************************)
(* Policy configuration: server.load_config_from_yaml, get_default_config  *)
(*                                                                         *)
(* A YAML value is a record with its shape: "null", "scalar" (anything     *)
(* that is neither a mapping nor a list), "list" or "mapping". A mapping   *)
(* key that is missing is Absent. A methods value is Absent, null or a     *)
(* list of strings.                                                        *)
(***************************************************************************)
Absent == [ shape |-> "absent" ]

YamlNull == [ shape |-> "null" ]

YamlScalar == [ shape |-> "scalar" ]

YamlList(entries) == [ shape |-> "list", entries |-> entries ]

\* One entry of allowed_crds or allowed_groups that is a mapping: name is None
\* (missing, null or "") or Some(name); methods is Absent or a list.
PolicyEntry(name, methods) == [ shape |-> "mapping", name |-> name, methods |-> methods ]

\* config.get('allowed_crds', []) and entry.get('methods', []): the default
\* replaces a missing key only.
GetOrEmptyList(value) == IF value = Absent THEN YamlList(<< >>) ELSE value

\* A loader that stores an empty methods list as it is written.
KeepMethods(methods) ==
    IF GetOrEmptyList(methods).shape = "list" THEN GetOrEmptyList(methods).entries ELSE << >>

\* Lines 64-69 (78-83): methods = entry.get('methods', []); an empty or null
\* methods value is replaced by the five kinds.
LoadedMethods(methods) ==
    IF GetOrEmptyList(methods).shape = "list" /\ GetOrEmptyList(methods).entries # << >>
    THEN GetOrEmptyList(methods).entries
    ELSE DefaultMethods

\* d[key] = value
SetItem(d, key, value) ==
    [ k \in (DOMAIN d) \cup { key } |-> IF k = key THEN value ELSE d[k] ]

\* The loops of lines 62-70 and 76-84 over the entries from position i on.
\* An entry that is no mapping has no .get: AttributeError. An entry without a
\* name is skipped.
RECURSIVE LoadEntriesFrom(_, _, _)
LoadEntriesFrom(entries, i, loaded) ==
    IF i > Len(entries) THEN [ raised |-> FALSE, map |-> loaded ]
    ELSE IF entries[i].shape # "mapping" THEN [ raised |-> TRUE, map |-> loaded ]
    ELSE IF entries[i].name = None THEN LoadEntriesFrom(entries, i + 1, loaded)
    ELSE LoadEntriesFrom(entries, i + 1,
             SetItem(loaded, entries[i].name[1], LoadedMethods(entries[i].methods)))

\* One of the two loops, on the value of the key: a null or scalar value cannot
\* be iterated (TypeError).
LoadEntries(field) ==
    IF GetOrEmptyList(field).shape # "list" THEN [ raised |-> TRUE, map |-> EmptyDict ]
    ELSE LoadEntriesFrom(GetOrEmptyList(field).entries, 1, EmptyDict)

\* not crd_list, for a value the loop could iterate.
IsEmptyList(field) == GetOrEmptyList(field).entries = << >>

\* sys.exit(1)
Exit == [ exit |-> TRUE, crds |-> EmptyDict, groups |-> EmptyDict ]

Loaded(crds, groups) == [ exit |-> FALSE, crds |-> crds, groups |-> groups ]

\* not config: an empty file (None) or a mapping without keys.
IsFalsy(doc) ==
    \/ doc.shape = "null"
    \/ /\ doc.shape = "mapping"
       /\ doc.allowed_crds = Absent
       /\ doc.allowed_groups = Absent
       /\ ~doc.other_keys

\* load_config_from_yaml(config_file), on what open() and yaml.safe_load give:
\* a missing file, any other failure of open(), a YAML syntax error, or the
\* parsed document. Every exception ends in sys.exit(1).
load_config_from_yaml(file) ==
    IF file.kind \in { "missing", "unreadable", "invalid_yaml" } THEN Exit
    ELSE IF IsFalsy(file.doc) THEN Loaded(EmptyDict, EmptyDict)
    ELSE IF file.doc.shape # "mapping" THEN Exit
    ELSE LET crds   == LoadEntries(file.doc.allowed_crds)
             groups == LoadEntries(file.doc.allowed_groups)
         IN  IF crds.raised \/ groups.raised THEN Exit
             ELSE IF IsEmptyList(file.doc.allowed_crds) /\ IsEmptyList(file.doc.allowed_groups)
                  THEN Loaded(EmptyDict, EmptyDict)
             ELSE Loaded(crds.map, groups.map)

\* A start-up without --config that would allow everything.
AllowAllConfig == Loaded(EmptyDict, EmptyDict)

\* get_default_config()
get_default_config ==
    Loaded(
        ("agentclusterinstalls.extensions.hive.openshift.io" :> << "create", "get", "update" >>)
        @@ ("agents.agent-install.openshift.io" :> << "list", "get", "update" >>)
        @@ ("clusterdeployments.hive.openshift.io" :> << "create", "get", "update" >>)
        @@ ("clusterimagesets.hive.openshift.io" :> << "create", "get" >>)
        @@ ("infraenvs.agent-install.openshift.io" :> << "create", "get", "update" >>)
        @@ ("nmstateconfigs.agent-install.openshift.io" :> << "create", "get", "update" >>),
        EmptyDict)

(***************************************************************************)
(* The discovered CRDs                                                     *)
(***************************************************************************)
\* A CRD as the API server returns it: at least one version, exactly one of
\* them the storage version. schema is version.schema.open_apiv3_schema.
CrdSchema(description, props) == [ description |-> description, properties |-> props ]

AgentCrd ==
    [ name |-> "agents.agent-install.openshift.io",
      group |-> "agent-install.openshift.io",
      kind |-> "Agent",
      plural |-> "agents",
      scope |-> "Namespaced",
      versions |-> <<
          [ name |-> "v1beta1", served |-> TRUE, storage |-> TRUE,
            schema |-> CrdSchema(Some(ShortText),
                Some([ spec |-> [ type |-> Some("object"),
                                  required |-> Some(<< "approved" >>),
                                  properties |-> Some(
                                      [ approved |-> [ type |-> Some("boolean") ],
                                        hyperthreading |-> [ type |-> Some("string") ] ]) ],
                       status |-> [ type |-> Some("object") ] ])) ] >> ]

ClusterImageSetCrd ==
    [ name |-> "clusterimagesets.hive.openshift.io",
      group |-> "hive.openshift.io",
      kind |-> "ClusterImageSet",
      plural |-> "clusterimagesets",
      scope |-> "Cluster",
      versions |-> <<
          [ name |-> "v1", served |-> TRUE, storage |-> TRUE,
            schema |-> CrdSchema(None,
                Some([ spec |-> [ type |-> Some("object"),
                                  properties |-> Some(
                                      [ releaseImage |-> [ type |-> Some("string") ] ]) ] ])) ] >> ]

\* A CRD whose spec schema has no properties map, with an older served version.
GadgetCrd ==
    [ name |-> "gadgets.example.io",
      group |-> "example.io",
      kind |-> "Gadget",
      plural |-> "gadgets",
      scope |-> "Namespaced",
      versions |-> <<
          [ name |-> "v1alpha1", served |-> TRUE, storage |-> FALSE,
            schema |-> CrdSchema(None, Some([ spec |-> [ type |-> Some("object") ] ])) ],
          [ name |-> "v1", served |-> TRUE, storage |-> TRUE,
            schema |-> CrdSchema(Some(LongText),
                Some([ spec |-> [ type |-> Some("object"), description |-> Some(LongText),
                                  properties |-> None ] ])) ] >> ]

WidgetCrd ==
    [ name |-> "widgets.example.io",
      group |-> "example.io",
      kind |-> "Widget",
      plural |-> "widgets",
      scope |-> "Namespaced",
      versions |-> <<
          [ name |-> "v1", served |-> TRUE, storage |-> TRUE,
            schema |-> CrdSchema(Some(ShortText),
                Some([ spec |-> [ properties |-> Some(
                                      [ size |-> [ type |-> Some("integer") ] ]) ] ])) ] >> ]

\* A CRD of another group with the kind and plural of WidgetCrd.
AcmeWidgetCrd ==
    [ name |-> "widgets.acme.io",
      group |-> "acme.io",
      kind |-> "Widget",
      plural |-> "widgets",
      scope |-> "Namespaced",
      versions |-> <<
          [ name |-> "v2", served |-> TRUE, storage |-> TRUE,
            schema |-> CrdSchema(Some(ShortText),
                Some([ spec |-> [ properties |-> Some(
                                      [ colour |-> [ type |-> Some("string") ] ]) ] ])) ] >> ]

\* The CRDs of the cluster, in the order the API server lists them (by name).
Catalogue == << AgentCrd, ClusterImageSetCrd, GadgetCrd, AcmeWidgetCrd, WidgetCrd >>

\* The lists discovery can return: the CRDs installed, in catalogue order.
CrdLists ==
    { SelectSeq(Catalogue, LAMBDA crd : crd.name \in installed) :
        installed \in SUBSET { Catalogue[i].name : i \in 1..Len(Catalogue) } }

\* str.lower() on the kinds of the catalogue.
Lower(kind) ==
    CASE kind = "Agent" -> "agent"
      [] kind = "ClusterImageSet" -> "clusterimageset"
      [] kind = "Gadget" -> "gadget"
      [] kind = "Widget" -> "widget"

(***************************************************************************)
(* Tool registration: add_doc, add_list_tool, add_get_tool,                *)
(* add_create_tool, add_update_tool, server.add_k8s_resources              *)
(*                                                                         *)
(* A tool name is the tuple of the pieces the code concatenates. Each      *)
(* add_* gives the tool table after the call, or raised = TRUE when the    *)
(* call raises before mcp_server.add_tool.                                 *)
(***************************************************************************)
Raised(table) == [ raised |-> TRUE, tools |-> table ]

\* mcp_server.add_tool(t): the table is keyed by tool name, and a tool added
\* under a name the table already holds takes the place of the entry (FastMCP
\* logs a warning and replaces, its default for duplicates).
add_tool(table, name, tool) == [ raised |-> FALSE, tools |-> SetItem(table, name, tool) ]

\* The loop that finds the schema of the preferred version, with its fallback to
\* the first version (docs.py 17-29, create.py 72-84, update.py 68-80).
PreferredSchema(crd) ==
    LET preferred == get_preferred_version(crd.versions)
        matching  == SelectSeq(crd.versions, LAMBDA v : v.name = preferred)
    IN  IF matching # << >> THEN matching[1].schema ELSE crd.versions[1].schema

\* crd_schema.properties['spec'] raises when the version list is empty
\* (IndexError), when the schema has no properties (TypeError) or no spec
\* property (KeyError).
SpecSchemaRaises(crd) ==
    \/ crd.versions = << >>
    \/ PreferredSchema(crd).properties = None
    \/ "spec" \notin DOMAIN PreferredSchema(crd).properties[1]

\* crd_schema.properties['spec'].to_dict()
SpecSchema(crd) == PreferredSchema(crd).properties[1]["spec"]

\* An injected name / namespace parameter (its description text is left out).
StringParam == [ type |-> Some("string") ]

\* An add_doc that documents the spec schema as the CRD declares it, unreduced.
DocOfRawSchema(table, crd) ==
    IF SpecSchemaRaises(crd) THEN Raised(table)
    ELSE add_tool(table, << "get_", Lower(crd.kind), "_documentation" >>,
             [ crd |-> crd.name, op |-> "docs", fn |-> "add_doc.fn", parameters |-> EmptyDict,
               returns |-> SetItem(SpecSchema(crd), "description",
                                   PreferredSchema(crd).description) ])

\* add_doc(mcp_server, crd)
add_doc(table, crd) ==
    IF SpecSchemaRaises(crd) THEN Raised(table)
    ELSE add_tool(table, << "get_", Lower(crd.kind), "_documentation" >>,
             [ crd |-> crd.name, op |-> "docs", fn |-> "add_doc.fn", parameters |-> EmptyDict,
               returns |-> SetItem(filter_properties(SpecSchema(crd), {}), "description",
                                   PreferredSchema(crd).description) ])

\* add_list_tool(mcp_server, crd): params is assigned in the Namespaced branch
\* only, and read for every scope (UnboundLocalError otherwise).
add_list_tool(table, crd) ==
    IF crd.scope # "Namespaced" THEN Raised(table)
    ELSE add_tool(table, << "list_", Lower(crd.kind), "" >>,
             [ crd |-> crd.name, op |-> "list", fn |-> "get_namespaced_list_function",
               parameters |-> [ type |-> Some("object"),
                                properties |-> Some([ namespace |-> StringParam ]),
                                required |-> Some(<< "namespace" >>) ] ])

\* An add_get_tool that names the tool by the kind as declared, not lowercased.
GetToolOfDeclaredKind(table, crd) ==
    add_tool(table, << "get_", crd.kind, "" >>,
        [ crd |-> crd.name, op |-> "get",
          fn |-> IF crd.scope = "Namespaced" THEN "get_namespaced_get_function"
                 ELSE "get_cluster_get_function",
          parameters |->
              IF crd.scope = "Namespaced"
              THEN [ type |-> Some("object"),
                     properties |-> Some([ namespace |-> StringParam, name |-> StringParam ]),
                     required |-> Some(<< "namespace", "name" >>) ]
              ELSE [ type |-> Some("object"),
                     properties |-> Some([ name |-> StringParam ]),
                     required |-> Some(<< "name" >>) ] ])

\* add_get_tool(mcp_server, crd)
add_get_tool(table, crd) ==
    add_tool(table, << "get_", Lower(crd.kind), "" >>,
        [ crd |-> crd.name, op |-> "get",
          fn |-> IF crd.scope = "Namespaced" THEN "get_namespaced_get_function"
                 ELSE "get_cluster_get_function",
          parameters |->
              IF crd.scope = "Namespaced"
              THEN [ type |-> Some("object"),
                     properties |-> Some([ namespace |-> StringParam, name |-> StringParam ]),
                     required |-> Some(<< "namespace", "name" >>) ]
              ELSE [ type |-> Some("object"),
                     properties |-> Some([ name |-> StringParam ]),
                     required |-> Some(<< "name" >>) ] ])

\* params['properties']['name'] = ... and, for a Namespaced CRD,
\* params['properties']['namespace'] = ...
WithNameParams(params, crd) ==
    LET named == SetItem(params["properties"][1], "name", StringParam)
    IN  SetItem(params, "properties",
            Some(IF crd.scope = "Namespaced" THEN SetItem(named, "namespace", StringParam)
                 ELSE named))

\* add_create_tool(mcp_server, crd): params['properties'] raises KeyError when
\* the reduced spec schema has no properties.
add_create_tool(table, crd) ==
    IF SpecSchemaRaises(crd) THEN Raised(table)
    ELSE LET params == filter_properties(SpecSchema(crd), {})
         IN  IF "properties" \notin DOMAIN params THEN Raised(table)
             ELSE add_tool(table, << "create_", Lower(crd.kind), "" >>,
                      [ crd |-> crd.name, op |-> "create",
                        fn |-> IF crd.scope = "Namespaced"
                               THEN "get_namespaced_create_function"
                               ELSE "get_cluster_create_function",
                        parameters |-> WithNameParams(params, crd) ])

\* add_update_tool(mcp_server, crd)
add_update_tool(table, crd) ==
    IF SpecSchemaRaises(crd) THEN Raised(table)
    ELSE LET params == filter_properties(SpecSchema(crd), { "required" })
         IN  IF "properties" \notin DOMAIN params THEN Raised(table)
             ELSE add_tool(table, << "update_", Lower(crd.kind), "" >>,
                      [ crd |-> crd.name, op |-> "update",
                        fn |-> IF crd.scope = "Namespaced"
                               THEN "get_namespaced_update_function"
                               ELSE "get_cluster_update_function",
                        parameters |-> WithNameParams(params, crd) ])

\* A loop body whose tests "<kind> in allowed_methods" are always true.
AddUnlessRaised(before, method, allowed_methods, after) ==
    IF before.raised THEN before ELSE after

\* One "if <kind> in allowed_methods: add_..." of the loop body (lines 181-195),
\* applied to the outcome of the ones before it.
AddIfAllowed(before, method, allowed_methods, after) ==
    IF before.raised \/ ~InList(method, allowed_methods) THEN before ELSE after

\* The body of the loop of add_k8s_resources for one CRD (lines 168-195).
RegisterTools(table, crd, crds, groups) ==
    LET allowed_methods == get_effective_methods(crd.name, crd.group, crds, groups)
        start   == [ raised |-> FALSE, tools |-> table ]
        docs    == AddIfAllowed(start, "docs", allowed_methods, add_doc(start.tools, crd))
        list    == AddIfAllowed(docs, "list", allowed_methods, add_list_tool(docs.tools, crd))
        get     == AddIfAllowed(list, "get", allowed_methods, add_get_tool(list.tools, crd))
        create  == AddIfAllowed(get, "create", allowed_methods, add_create_tool(get.tools, crd))
        update  == AddIfAllowed(create, "update", allowed_methods,
                                add_update_tool(create.tools, crd))
    IN  IF allowed_methods = << >> THEN start ELSE update

(***************************************************************************)
(* The tool functions: what a registered tool does when it is invoked.     *)
(*                                                                         *)
(* A call gives the request it submits to the cluster (NoRequest when it   *)
(* submits none) and its result: Returns(value) or Raises(error). What the *)
(* client and the cluster do is an input of the call: the client cannot be *)
(* built (ConfigException), the request is answered, the request raises    *)
(* ApiException, or it raises any other exception.                         *)
(***************************************************************************)
Returns(value) == [ status |-> "returned", value |-> value ]

Raises(error) == [ status |-> "raised", error |-> error ]

Outcome(req, res) == [ request |-> req, result |-> res ]

\* config.load_kube_config() and config.load_incluster_config() both fail.
ConfigException == [ kind |-> "ConfigException" ]

\* The request is answered; reply says with what.
Answer(reply) == [ kind |-> "ok", reply |-> reply ]

\* The list request is answered with these resources, or with no items key.
ListAnswer(reply, names) == [ kind |-> "ok", reply |-> reply, names |-> names ]

\* kubernetes.client.rest.ApiException
ApiException(status, reason, body, headers) ==
    [ kind |-> "ApiException", status |-> status, reason |-> reason, body |-> body,
      headers |-> headers ]

\* Any exception that is no ApiException; text is str(e).
OtherException(text) == [ kind |-> "Exception", text |-> text ]

\* f"{group}/{version}"
ApiVersion(group, version) == << group, "/", version >>

\* The object the API server stores and returns for a submitted body.
CreatedObject(body) == [ body EXCEPT !.metadata = SetItem(@, "uid", "uid-1") ]

\* error_details (utils.py 130-135, 203-208): dict(e.headers) if e.headers else None
ErrorDetails(e) ==
    [ status |-> e.status, reason |-> e.reason, body |-> e.body,
      headers |-> IF e.headers # None /\ DOMAIN e.headers[1] # {} THEN e.headers ELSE None ]

\* The result of the except ApiException branch (utils.py 142-147, 214-219).
ApiErrorResult(e) ==
    [ success |-> FALSE, error |-> << "Kubernetes API error: ", e.reason >>,
      details |-> ErrorDetails(e), api_error |-> TRUE ]

\* The result of the except Exception branch (utils.py 155-159, 222-226).
UnexpectedErrorResult(verb, kind, e) ==
    [ success |-> FALSE, error |-> << "Unexpected error ", verb, " ", kind, ": ", e.text >>,
      api_error |-> FALSE ]

\* A create that reports every failure as an unexpected local error.
CreateWithoutApiErrors(group, version, kind, plural, body, outcome) ==
    IF outcome.kind = "ConfigException" THEN Outcome(NoRequest, Raises("ConfigException"))
    ELSE Outcome(
             IF "namespace" \in DOMAIN body.metadata
             THEN [ endpoint |-> "create_namespaced_custom_object", group |-> group,
                    version |-> version, plural |-> plural,
                    namespace |-> body.metadata.namespace, body |-> body ]
             ELSE [ endpoint |-> "create_cluster_custom_object", group |-> group,
                    version |-> version, plural |-> plural, body |-> body ],
             IF outcome.kind = "ok" /\ outcome.reply # "empty"
             THEN Returns([ success |-> TRUE, resource |-> CreatedObject(body) ])
             ELSE Returns([ success |-> FALSE, error |-> << "Unexpected error" >>,
                            api_error |-> FALSE ]))

\* create_unstructured_object(group, version, kind, plural, body). The client is
\* built before the try (line 91); an answer that is falsy takes the branch of
\* line 127, whose result has no api_error key.
create_unstructured_object(group, version, kind, plural, body, outcome) ==
    IF outcome.kind = "ConfigException" THEN Outcome(NoRequest, Raises("ConfigException"))
    ELSE Outcome(
             IF "namespace" \in DOMAIN body.metadata
             THEN [ endpoint |-> "create_namespaced_custom_object", group |-> group,
                    version |-> version, plural |-> plural,
                    namespace |-> body.metadata.namespace, body |-> body ]
             ELSE [ endpoint |-> "create_cluster_custom_object", group |-> group,
                    version |-> version, plural |-> plural, body |-> body ],
             CASE outcome.kind = "ok" ->
                      IF outcome.reply # "empty"
                      THEN Returns([ success |-> TRUE, resource |-> CreatedObject(body) ])
                      ELSE Returns([ success |-> FALSE,
                                     error |-> << "Failed to create resource - no response from API" >> ])
               [] outcome.kind = "ApiException" -> Returns(ApiErrorResult(outcome))
               [] outcome.kind = "Exception" ->
                      Returns(UnexpectedErrorResult("creating", kind, outcome)))

\* update_unstructured_object(group, version, kind, plural, body). The dynamic
\* client is built before the try (line 176); resources.get and patch are in it.
update_unstructured_object(group, version, kind, plural, body, outcome) ==
    IF outcome.kind = "ConfigException" THEN Outcome(NoRequest, Raises("ConfigException"))
    ELSE Outcome(
             IF "namespace" \in DOMAIN body.metadata
             THEN [ endpoint |-> "patch", api_version |-> ApiVersion(group, version),
                    kind |-> kind, body |-> body, name |-> body.metadata.name,
                    namespace |-> body.metadata.namespace,
                    content_type |-> "application/merge-patch+json" ]
             ELSE [ endpoint |-> "patch", api_version |-> ApiVersion(group, version),
                    kind |-> kind, body |-> body, name |-> body.metadata.name,
                    content_type |-> "application/merge-patch+json" ],
             CASE outcome.kind = "ok" -> Returns([ success |-> TRUE ])
               [] outcome.kind = "ApiException" -> Returns(ApiErrorResult(outcome))
               [] outcome.kind = "Exception" ->
                      Returns(UnexpectedErrorResult("updating", kind, outcome)))

\* unstructured_object_body (create.py 27-34 and 58-66, update.py 24-31 and 53-61)
UnstructuredObjectBody(crd, metadata, kwargs) ==
    [ apiVersion |-> ApiVersion(crd.group, get_preferred_version(crd.versions)),
      kind |-> crd.kind, metadata |-> metadata, spec |-> kwargs ]

\* A create function that leaves the namespace out of the body.
CreateWithoutNamespace(crd, arguments, outcome) ==
    create_unstructured_object(crd.group, get_preferred_version(crd.versions), crd.kind,
        crd.plural,
        UnstructuredObjectBody(crd, [ name |-> arguments.name ], arguments.kwargs), outcome)

\* create_function of get_namespaced_create_function(crd)
get_namespaced_create_function(crd, arguments, outcome) ==
    create_unstructured_object(crd.group, get_preferred_version(crd.versions), crd.kind,
        crd.plural,
        UnstructuredObjectBody(crd,
            [ name |-> arguments.name, namespace |-> arguments.namespace ], arguments.kwargs),
        outcome)

\* create_function of get_cluster_create_function(crd)
get_cluster_create_function(crd, arguments, outcome) ==
    create_unstructured_object(crd.group, get_preferred_version(crd.versions), crd.kind,
        crd.plural,
        UnstructuredObjectBody(crd, [ name |-> arguments.name ], arguments.kwargs), outcome)

\* update_function of get_namespaced_update_function(crd)
get_namespaced_update_function(crd, arguments, outcome) ==
    update_unstructured_object(crd.group, get_preferred_version(crd.versions), crd.kind,
        crd.plural,
        UnstructuredObjectBody(crd,
            [ name |-> arguments.name, namespace |-> arguments.namespace ], arguments.kwargs),
        outcome)

\* update_function of get_cluster_update_function(crd)
get_cluster_update_function(crd, arguments, outcome) ==
    update_unstructured_object(crd.group, get_preferred_version(crd.versions), crd.kind,
        crd.plural,
        UnstructuredObjectBody(crd, [ name |-> arguments.name ], arguments.kwargs), outcome)

\* res.to_dict(): the resource the cluster holds under the requested name, with
\* or without metadata.managedFields.
StoredObject(crd, metadata, reply) ==
    [ apiVersion |-> ApiVersion(crd.group, get_preferred_version(crd.versions)),
      kind |-> crd.kind,
      metadata |->
          IF reply = "managed"
          THEN SetItem(SetItem(metadata, "uid", "uid-1"), "managedFields",
                       << [ manager |-> "kubectl", operation |-> "Update" ] >>)
          ELSE SetItem(metadata, "uid", "uid-1"),
      spec |-> [ size |-> "3" ],
      status |-> [ phase |-> "Ready" ] ]

\* d without key, for a dict that holds it.
DelItem(d, key) == [ k \in (DOMAIN d) \ { key } |-> d[k] ]

\* A slim that deletes the whole metadata.
SlimMetadata(response) == Returns(DelItem(response, "metadata"))

\* slim(response): del response["metadata"]["managedFields"]
slim(response) ==
    IF "managedFields" \notin DOMAIN response.metadata THEN Raises("KeyError")
    ELSE Returns([ response EXCEPT !.metadata = DelItem(@, "managedFields") ])

\* get_function of both scopes, on the metadata the request names (get.py 23-26
\* and 44-47): nothing is caught.
GetFunction(crd, metadata, outcome) ==
    IF outcome.kind = "ConfigException" THEN Outcome(NoRequest, Raises("ConfigException"))
    ELSE Outcome(
             [ endpoint |-> "get",
               api_version |-> ApiVersion(crd.group, get_preferred_version(crd.versions)),
               kind |-> crd.kind, metadata |-> metadata ],
             IF outcome.kind = "ok" THEN slim(StoredObject(crd, metadata, outcome.reply))
             ELSE Raises(outcome.kind))

\* get_function of get_namespaced_get_function(crd)
get_namespaced_get_function(crd, arguments, outcome) ==
    GetFunction(crd, [ name |-> arguments.name, namespace |-> arguments.namespace ], outcome)

\* get_function of get_cluster_get_function(crd)
get_cluster_get_function(crd, arguments, outcome) ==
    GetFunction(crd, [ name |-> arguments.name ], outcome)

\* crd_list as the cluster answers it: a dict with an items key, or without.
ListReply(crd, outcome) ==
    IF outcome.reply = "no_items" THEN [ kind |-> crd.kind ]
    ELSE [ kind |-> crd.kind,
           items |-> [ i \in 1..Len(outcome.names) |->
                          [ metadata |-> [ name |-> outcome.names[i] ] ] ] ]

\* Lines 29-32 and 64-67 of list.py.
ListedNames(crd_list_reply) ==
    IF "items" \notin DOMAIN crd_list_reply THEN << >>
    ELSE [ i \in 1..Len(crd_list_reply.items) |-> crd_list_reply.items[i].metadata.name ]

\* A namespaced list function without the try around the request.
ListWithoutTry(crd, arguments, outcome) ==
    IF outcome.kind = "ConfigException" THEN Outcome(NoRequest, Raises("ConfigException"))
    ELSE Outcome(
             [ endpoint |-> "list_namespaced_custom_object", group |-> crd.group,
               version |-> get_preferred_version(crd.versions),
               namespace |-> arguments.namespace, plural |-> crd.plural ],
             IF outcome.kind = "ok" THEN Returns(ListedNames(ListReply(crd, outcome)))
             ELSE Raises(outcome.kind))

\* list_function of get_namespaced_list_function(crd): the client is built
\* before the try (line 46), the request is inside it.
get_namespaced_list_function(crd, arguments, outcome) ==
    IF outcome.kind = "ConfigException" THEN Outcome(NoRequest, Raises("ConfigException"))
    ELSE Outcome(
             [ endpoint |-> "list_namespaced_custom_object", group |-> crd.group,
               version |-> get_preferred_version(crd.versions),
               namespace |-> arguments.namespace, plural |-> crd.plural ],
             IF outcome.kind = "ok" THEN Returns(ListedNames(ListReply(crd, outcome)))
             ELSE Returns(<< >>))

\* list_function of get_cluster_list_function(crd): namespace is a required
\* parameter (TypeError without it) that is used for a log line only, and
\* nothing is caught.
get_cluster_list_function(crd, arguments, outcome) ==
    IF "namespace" \notin DOMAIN arguments THEN Outcome(NoRequest, Raises("TypeError"))
    ELSE IF outcome.kind = "ConfigException"
    THEN Outcome(NoRequest, Raises("ConfigException"))
    ELSE Outcome(
             [ endpoint |-> "list_cluster_custom_object", group |-> crd.group,
               version |-> get_preferred_version(crd.versions), plural |-> crd.plural ],
             IF outcome.kind = "ok" THEN Returns(ListedNames(ListReply(crd, outcome)))
             ELSE Raises(outcome.kind))

\* fn(**arguments) for the function a tool was built with. The docs function
\* returns the params dict add_doc built; it asks the cluster nothing.
Invoke(fn, crd, arguments, outcome, params) ==
    CASE fn = "add_doc.fn" -> Outcome(NoRequest, Returns(params))
      [] fn = "get_namespaced_list_function" ->
             get_namespaced_list_function(crd, arguments, outcome)
      [] fn = "get_cluster_list_function" -> get_cluster_list_function(crd, arguments, outcome)
      [] fn = "get_namespaced_get_function" ->
             get_namespaced_get_function(crd, arguments, outcome)
      [] fn = "get_cluster_get_function" -> get_cluster_get_function(crd, arguments, outcome)
      [] fn = "get_namespaced_create_function" ->
             get_namespaced_create_function(crd, arguments, outcome)
      [] fn = "get_cluster_create_function" ->
             get_cluster_create_function(crd, arguments, outcome)
      [] fn = "get_namespaced_update_function" ->
             get_namespaced_update_function(crd, arguments, outcome)
      [] fn = "get_cluster_update_function" ->
             get_cluster_update_function(crd, arguments, outcome)

(***************************************************************************)
(* The invocations: the arguments a caller passes and what the client and  *)
(* the cluster can do during the call.                                     *)
(***************************************************************************)
CallNames == { "a", "b" }

CallNamespaces == { "default", "ns" }

\* **kwargs: the spec properties the caller passes, as JSON text.
SpecArguments == { EmptyDict, [ size |-> "0", paused |-> "false" ] }

\* The arguments of a call that matches the signature of the function; the
\* cluster list function is also called without the namespace it never reads.
Arguments(fn) ==
    CASE fn = "add_doc.fn" -> { EmptyDict }
      [] fn = "get_namespaced_list_function" -> { [ namespace |-> ns ] : ns \in CallNamespaces }
      [] fn = "get_cluster_list_function" ->
             { EmptyDict } \cup { [ namespace |-> ns ] : ns \in CallNamespaces }
      [] fn = "get_namespaced_get_function" ->
             { [ name |-> n, namespace |-> ns ] : n \in CallNames, ns \in CallNamespaces }
      [] fn = "get_cluster_get_function" -> { [ name |-> n ] : n \in CallNames }
      [] fn \in { "get_namespaced_create_function", "get_namespaced_update_function" } ->
             { [ name |-> n, namespace |-> ns, kwargs |-> kw ] :
                 n \in CallNames, ns \in CallNamespaces, kw \in SpecArguments }
      [] fn \in { "get_cluster_create_function", "get_cluster_update_function" } ->
             { [ name |-> n, kwargs |-> kw ] : n \in CallNames, kw \in SpecArguments }

\* The cluster-reported errors: a not-found with headers, a conflict without.
ApiExceptions ==
    { ApiException(404, "Not Found", "{\"code\":404}", Some([ Date |-> "today" ])),
      ApiException(409, "Conflict", "{\"code\":409}", Some(EmptyDict)) }

\* What can happen during a call that asks the cluster something.
Failures == { ConfigException, OtherException("Connection refused") } \cup ApiExceptions

ClusterOutcomes(fn) ==
    CASE fn = "add_doc.fn" -> { NoOutcome }
      [] fn \in { "get_namespaced_list_function", "get_cluster_list_function" } ->
             Failures \cup { ListAnswer("no_items", << >>), ListAnswer("items", << >>),
                             ListAnswer("items", << "b", "a" >>) }
      [] fn \in { "get_namespaced_get_function", "get_cluster_get_function" } ->
             Failures \cup { Answer("managed"), Answer("unmanaged") }
      [] fn \in { "get_namespaced_create_function", "get_cluster_create_function" } ->
             Failures \cup { Answer("object"), Answer("empty") }
      [] fn \in { "get_namespaced_update_function", "get_cluster_update_function" } ->
             Failures \cup { Answer("patched") }

(***************************************************************************)
(* Spec: the process. main() takes the policy from --config or from the    *)
(* default configuration, add_k8s_resources lists the CRDs and registers   *)
(* their tools one CRD at a time, then mcp_server.run serves the table.    *)
(* pc: start -> loaded -> registering -> serving, or exited (sys.exit(1)), *)
(* or crashed (an exception nothing catches). While serving, one call at a *)
(* time is dispatched to a tool of the table and its result returned.      *)
(***************************************************************************)
MaxCrdEntries == 2

MaxGroupEntries == 1

\* args.config is None
NoConfig == [ kind |-> "none" ]

\* The per-CRD entries a configuration file is written from: an entry that is
\* no mapping, one without a name, and three for the widgets CRD.
CrdEntries ==
    { YamlScalar,
      PolicyEntry(None, YamlList(<< "get" >>)),
      PolicyEntry(Some("widgets.example.io"), YamlList(<< >>)),
      PolicyEntry(Some("widgets.example.io"), YamlList(<< "get" >>)),
      PolicyEntry(Some("widgets.example.io"), YamlList(<< "docs", "create", "watch" >>)) }

GroupEntries ==
    { PolicyEntry(None, YamlList(<< "get" >>)),
      PolicyEntry(Some("example.io"), Absent),
      PolicyEntry(Some("example.io"), YamlList(<< "list", "get" >>)) }

\* The values of allowed_crds / allowed_groups.
PolicyFields(entries, n) ==
    { Absent, YamlNull, YamlScalar } \cup { YamlList(es) : es \in SeqsUpTo(entries, n) }

Mapping(crds, groups, other) ==
    [ shape |-> "mapping", allowed_crds |-> crds, allowed_groups |-> groups,
      other_keys |-> other ]

\* What yaml.safe_load can return.
Documents ==
    { YamlNull, YamlScalar, Mapping(Absent, Absent, TRUE) }
        \cup { Mapping(crds, groups, FALSE) :
                   crds \in PolicyFields(CrdEntries, MaxCrdEntries),
                   groups \in PolicyFields(GroupEntries, MaxGroupEntries) }

ConfigFiles ==
    { [ kind |-> "missing" ], [ kind |-> "unreadable" ], [ kind |-> "invalid_yaml" ] }
        \cup { [ kind |-> "yaml", doc |-> doc ] : doc \in Documents }

Init ==
    /\ pc = "start"
    /\ args_config \in { NoConfig } \cup ConfigFiles
    /\ allowed_crds = EmptyDict
    /\ allowed_groups = EmptyDict
    /\ crd_list \in CrdLists
    /\ next_crd = 0
    /\ tools = EmptyDict
    /\ IdleVersion /\ IdlePolicy /\ IdleFilter /\ IdleCall

\* main(), lines 225-227: no --config.
UseDefaultConfig ==
    /\ pc = "start"
    /\ args_config = NoConfig
    /\ allowed_crds' = get_default_config.crds
    /\ allowed_groups' = get_default_config.groups
    /\ pc' = "loaded"
    /\ UNCHANGED << args_config, crd_list, next_crd, tools,
                    versionVars, policyVars, filterVars, callVars >>

\* main(), lines 223-224: load_config_from_yaml returns the maps or exits.
LoadConfigFile ==
    /\ pc = "start"
    /\ args_config # NoConfig
    /\ LET config == load_config_from_yaml(args_config)
       IN  IF config.exit
           THEN /\ pc' = "exited"
                /\ UNCHANGED << allowed_crds, allowed_groups >>
           ELSE /\ pc' = "loaded"
                /\ allowed_crds' = config.crds
                /\ allowed_groups' = config.groups
    /\ UNCHANGED << args_config, crd_list, next_crd, tools,
                    versionVars, policyVars, filterVars, callVars >>

\* add_k8s_resources, lines 160-166: the CRDs are listed.
ListCrds ==
    /\ pc = "loaded"
    /\ pc' = "registering"
    /\ next_crd' = 1
    /\ UNCHANGED << args_config, allowed_crds, allowed_groups, crd_list, tools,
                    versionVars, policyVars, filterVars, callVars >>

\* The client cannot be configured or the cluster cannot be reached: the
\* exception leaves main().
ListCrdsFails ==
    /\ pc = "loaded"
    /\ pc' = "crashed"
    /\ UNCHANGED << args_config, allowed_crds, allowed_groups, crd_list, next_crd, tools,
                    versionVars, policyVars, filterVars, callVars >>

\* One iteration of the loop of add_k8s_resources (lines 167-195).
RegisterCrd ==
    /\ pc = "registering"
    /\ next_crd <= Len(crd_list)
    /\ LET registered == RegisterTools(tools, crd_list[next_crd], allowed_crds, allowed_groups)
       IN  /\ tools' = registered.tools
           /\ pc' = IF registered.raised THEN "crashed" ELSE "registering"
    /\ next_crd' = next_crd + 1
    /\ UNCHANGED << args_config, allowed_crds, allowed_groups, crd_list,
                    versionVars, policyVars, filterVars, callVars >>

\* A server that starts to run while the registration loop is still going.
ServeDuringPass ==
    /\ pc = "registering"
    /\ pc' = "serving"
    /\ UNCHANGED << args_config, allowed_crds, allowed_groups, crd_list, next_crd, tools,
                    versionVars, policyVars, filterVars, callVars >>

\* main(), line 233: mcp_server.run(...) once the loop is over.
RunServer ==
    /\ pc = "registering"
    /\ next_crd > Len(crd_list)
    /\ pc' = "serving"
    /\ UNCHANGED << args_config, allowed_crds, allowed_groups, crd_list, next_crd, tools,
                    versionVars, policyVars, filterVars, callVars >>

\* The crd a tool function was built for (the closure's crd).
CrdOfTool(tool) ==
    crd_list[CHOOSE i \in 1..Len(crd_list) : crd_list[i].name = tool.crd]

\* The arguments of the calls dispatched by the running server: one object name
\* and one namespace (the tool functions are taken through all of Arguments
\* under SpecCall).
DispatchedArguments(fn) ==
    { a \in Arguments(fn) :
        /\ "name" \in DOMAIN a => a.name = "a"
        /\ "namespace" \in DOMAIN a => a.namespace = "default" }

\* mcp_server.run dispatches a call to a tool of the table: fn(**arguments).
\* The tool functions are synchronous, so one call is handled at a time, and
\* none of them touches the table.
CallTool ==
    /\ pc = "serving"
    /\ call = NoCall
    /\ \E t \in DOMAIN tools :
           \E arguments \in DispatchedArguments(tools[t].fn),
              outcome \in ClusterOutcomes(tools[t].fn) :
               LET done == Invoke(tools[t].fn, CrdOfTool(tools[t]), arguments, outcome,
                                  IF tools[t].op = "docs" THEN tools[t].returns ELSE EmptyDict)
               IN  /\ call' = [ fn |-> tools[t].fn, crd |-> tools[t].crd,
                                arguments |-> arguments, tool |-> t ]
                   /\ cluster' = outcome
                   /\ request' = done.request
                   /\ result' = done.result
    /\ UNCHANGED << mainVars, versionVars, policyVars, filterVars >>

\* The result (or the error) of the call goes back to the caller and the server
\* waits for the next call.
ReturnResult ==
    /\ pc = "serving"
    /\ call # NoCall
    /\ call' = NoCall
    /\ cluster' = NoOutcome
    /\ request' = NoRequest
    /\ result' = NoResult
    /\ UNCHANGED << mainVars, versionVars, policyVars, filterVars >>

Next ==
    \/ UseDefaultConfig
    \/ LoadConfigFile
    \/ ListCrds
    \/ ListCrdsFails
    \/ RegisterCrd
    \/ RunServer
    \/ CallTool
    \/ ReturnResult

Spec == Init /\ [][Next]_vars

(***************************************************************************)
(* SpecCall: every tool function on every CRD of the catalogue, every      *)
(* argument list and every behaviour of the cluster, whether or not a      *)
(* registration pass gets as far as putting the function in the table.     *)
(***************************************************************************)
\* The functions add_list_tool, add_get_tool, add_create_tool and
\* add_update_tool choose for a CRD by its scope.
ToolFunctions(crd) ==
    IF crd.scope = "Namespaced"
    THEN { "get_namespaced_list_function", "get_namespaced_get_function",
           "get_namespaced_create_function", "get_namespaced_update_function" }
    ELSE { "get_cluster_list_function", "get_cluster_get_function",
           "get_cluster_create_function", "get_cluster_update_function" }

\* The CRD of the catalogue with this name.
CrdNamed(name) == Catalogue[CHOOSE i \in 1..Len(Catalogue) : Catalogue[i].name = name]

InitCall ==
    /\ \E i \in 1..Len(Catalogue) :
           \E fn \in ToolFunctions(Catalogue[i]) :
               /\ call \in { [ fn |-> fn, crd |-> Catalogue[i].name, arguments |-> arguments ] :
                                arguments \in Arguments(fn) }
               /\ cluster \in ClusterOutcomes(fn)
    /\ request = NoRequest
    /\ result = NoResult
    /\ IdleVersion /\ IdlePolicy /\ IdleFilter /\ IdleMain

\* The function of the call, run to its end on its arguments.
Applied == Invoke(call.fn, CrdNamed(call.crd), call.arguments, cluster, EmptyDict)

\* list_function(namespace)
CallList ==
    /\ result = NoResult
    /\ call.fn \in { "get_namespaced_list_function", "get_cluster_list_function" }
    /\ request' = Applied.request
    /\ result' = Applied.result
    /\ UNCHANGED << call, cluster, versionVars, policyVars, filterVars, mainVars >>

\* get_function(namespace, name) and get_function(name)
CallGet ==
    /\ result = NoResult
    /\ call.fn \in { "get_namespaced_get_function", "get_cluster_get_function" }
    /\ request' = Applied.request
    /\ result' = Applied.result
    /\ UNCHANGED << call, cluster, versionVars, policyVars, filterVars, mainVars >>

\* create_function(name, namespace, **kwargs) and create_function(name, **kwargs)
CallCreate ==
    /\ result = NoResult
    /\ call.fn \in { "get_namespaced_create_function", "get_cluster_create_function" }
    /\ request' = Applied.request
    /\ result' = Applied.result
    /\ UNCHANGED << call, cluster, versionVars, policyVars, filterVars, mainVars >>

\* update_function(name, namespace, **kwargs) and update_function(name, **kwargs)
CallUpdate ==
    /\ result = NoResult
    /\ call.fn \in { "get_namespaced_update_function", "get_cluster_update_function" }
    /\ request' = Applied.request
    /\ result' = Applied.result
    /\ UNCHANGED << call, cluster, versionVars, policyVars, filterVars, mainVars >>

NextCall == CallList \/ CallGet \/ CallCreate \/ CallUpdate

SpecCall == InitCall /\ [][NextCall]_vars

(***************************************************************************)
(* Claims about the Version Resolver (under SpecVersion)                   *)
(***************************************************************************)
VersionResolved == preferred_version # NotCalled

\* The positions of the versions marked storage, and of those marked served.
StorageIndices == { i \in 1..Len(versions) : versions[i].storage }

ServedIndices == { i \in 1..Len(versions) : versions[i].served }

\* The first served version, in declaration order.
FirstServedIndex == CHOOSE i \in ServedIndices : \A j \in ServedIndices : i <= j

\* C1 as stated: whenever the version list has exactly one storage=true entry
\* and at least one served=true entry, the resolver returns the name of the
\* storage entry.
C1_StorageVersionReturned ==
    (VersionResolved /\ Cardinality(StorageIndices) = 1 /\ ServedIndices # {})
        => \A i \in StorageIndices : preferred_version = Returned(versions[i].name)

\* C1 amended: whenever the version list has exactly one storage=true entry and
\* that entry is itself served, the resolver returns its name.
C1_ServedStorageVersionReturned ==
    (VersionResolved /\ Cardinality(StorageIndices) = 1 /\ StorageIndices \subseteq ServedIndices)
        => \A i \in StorageIndices : preferred_version = Returned(versions[i].name)

\* C1's case: the single storage version is served, and an earlier version with
\* another name is served too, so that the storage flag decides the result.
C1_Witness ==
    /\ VersionResolved
    /\ Cardinality(StorageIndices) = 1
    /\ StorageIndices \subseteq ServedIndices
    /\ \E i \in StorageIndices :
           /\ FirstServedIndex < i
           /\ versions[FirstServedIndex].name # versions[i].name
           /\ preferred_version = Returned(versions[i].name)

\* C2: for a non-empty version list with no storage=true entry, the resolver
\* returns the name of the first served entry in declaration order, or the name
\* of the first declared entry when no entry is served.
C2_NoStorageFallback ==
    (VersionResolved /\ StorageIndices = {} /\ versions # << >>)
        => preferred_version =
               Returned(IF ServedIndices # {} THEN versions[FirstServedIndex].name
                        ELSE versions[1].name)

\* C2's case: no storage version, the first declared version is not served and
\* two later ones with different names are, so "first served" is a real choice.
C2_Witness ==
    /\ VersionResolved
    /\ StorageIndices = {}
    /\ Cardinality(ServedIndices) >= 2
    /\ 1 \notin ServedIndices
    /\ \E j \in ServedIndices : versions[j].name # versions[FirstServedIndex].name
    /\ versions[1].name # versions[FirstServedIndex].name
    /\ preferred_version = Returned(versions[FirstServedIndex].name)

\* C3 as stated: for every version list, the empty one included, the resolver
\* returns the name of one of the declared versions (it never fails).
C3_AlwaysReturnsVersionName ==
    VersionResolved
        => \E i \in 1..Len(versions) : preferred_version = Returned(versions[i].name)

(***************************************************************************)
(* Claims about the Access Policy Resolver (under SpecPolicy)              *)
(***************************************************************************)
MethodsResolved == effective_methods # NotCalled

\* C4: a CRD name with an entry in the per-CRD map gets that entry verbatim,
\* whatever the per-group map holds.
C4_ResourceEntryVerbatim ==
    (MethodsResolved /\ crd_name \in DOMAIN resource_policy)
        => effective_methods = Returned(resource_policy[crd_name])

\* C4's case: resource policy {x: []}, group policy {g: [get]}, CRD x of group g
\* gets the empty list.
C4_Witness ==
    /\ crd_name = "x"
    /\ crd_group = "g"
    /\ resource_policy = [ n \in { "x" } |-> << >> ]
    /\ group_policy = [ g \in { "g" } |-> << "get" >> ]
    /\ effective_methods = Returned(<< >>)

\* C5: with both policy maps empty, every CRD name and group gets exactly the
\* five operation kinds docs, list, get, create and update.
C5_EmptyPolicyAllowsAll ==
    (MethodsResolved /\ DOMAIN resource_policy = {} /\ DOMAIN group_policy = {})
        => /\ Len(effective_methods[1]) = 5
           /\ { effective_methods[1][i] : i \in 1..5 } =
                  { "docs", "list", "get", "create", "update" }

\* C5's case: the resolver has run on two empty maps.
C5_Witness ==
    /\ MethodsResolved
    /\ DOMAIN resource_policy = {}
    /\ DOMAIN group_policy = {}
    /\ crd_name = "y"
    /\ crd_group = "h"

\* C6: a CRD with no per-CRD entry gets its group's entry when there is one;
\* when neither map matches and at least one map is non-empty it gets the empty
\* list.
C6_GroupEntryOrImplicitDeny ==
    (MethodsResolved /\ crd_name \notin DOMAIN resource_policy)
        => /\ crd_group \in DOMAIN group_policy
                => effective_methods = Returned(group_policy[crd_group])
           /\ ( /\ crd_group \notin DOMAIN group_policy
                /\ (DOMAIN resource_policy # {} \/ DOMAIN group_policy # {}) )
                => effective_methods = Returned(<< >>)

\* C6's case: implicit deny. Only another CRD and another group are configured,
\* both with all methods, and the CRD asked about gets nothing.
C6_Witness ==
    /\ crd_name \notin DOMAIN resource_policy
    /\ crd_group \notin DOMAIN group_policy
    /\ DOMAIN resource_policy # {}
    /\ DOMAIN group_policy # {}
    /\ \A n \in DOMAIN resource_policy : resource_policy[n] = DefaultMethods
    /\ \A g \in DOMAIN group_policy : group_policy[g] = DefaultMethods
    /\ effective_methods = Returned(<< >>)

(***************************************************************************)
(* Claims about the Schema Reducer (under SpecFilter)                      *)
(***************************************************************************)
\* C10: filter_properties is idempotent: reducing a reduced schema with the
\* same remove_props gives the reduced schema back.
C10_FilterIdempotent ==
    refiltered # NotCalled => refiltered = filtered_properties

\* C10's case: the schema was reduced twice, and the first reduction did real
\* work at the root and two levels below it: it truncated a long description,
\* and under properties.size.items it stripped nulls from an enum.
C10_Witness ==
    /\ refiltered # NotCalled
    /\ "description" \in DOMAIN properties
    /\ "description" \in DOMAIN filtered_properties[1]
    /\ Len(properties["description"][1]) > DescriptionLimit
    /\ Len(filtered_properties[1]["description"][1]) = DescriptionLimit
    /\ "properties" \in DOMAIN filtered_properties[1]
    /\ "size" \in DOMAIN filtered_properties[1]["properties"][1]
    /\ LET size == filtered_properties[1]["properties"][1]["size"]
       IN  /\ "items" \in DOMAIN size
           /\ "enum" \in DOMAIN size["items"][1]
           /\ size["items"][1]["enum"][1] = << "\"a\"", "\"b\"" >>

\* The enum of a raw node holds a null entry among non-null values.
HasNullAmongValues(node) ==
    /\ "enum" \in DOMAIN node
    /\ node["enum"] # None
    /\ \E i \in 1..Len(node["enum"][1]) : node["enum"][1][i] = "null"
    /\ \E i \in 1..Len(node["enum"][1]) : node["enum"][1][i] # "null"

\* Every raw node with such an enum, at the root or below it, has a reduced
\* node whose enum holds no null. The walk follows the reduced tree: a node the
\* reducer dropped has no reduced node.
RECURSIVE NullsStripped(_, _)
NullsStripped(raw, reduced) ==
    /\ HasNullAmongValues(raw)
           => /\ "enum" \in DOMAIN reduced
              /\ \A i \in 1..Len(reduced["enum"][1]) : reduced["enum"][1][i] # "null"
    /\ "items" \in DOMAIN reduced
           => NullsStripped(raw["items"][1], reduced["items"][1])
    /\ "properties" \in DOMAIN reduced
           => \A name \in DOMAIN reduced["properties"][1] :
                  NullsStripped(raw["properties"][1][name], reduced["properties"][1][name])

\* C11: for every schema node, at any depth, whose enum list contains a null
\* entry among non-null values, the enum of the corresponding reduced node
\* contains no null.
C11_EnumNullsStripped ==
    filtered_properties # NotCalled => NullsStripped(properties, filtered_properties[1])

\* C11's case: two levels below the root, under items.items, the raw enum holds
\* two nulls among other values and the reduced enum holds none.
C11_Witness ==
    /\ filtered_properties # NotCalled
    /\ "items" \in DOMAIN filtered_properties[1]
    /\ "items" \in DOMAIN filtered_properties[1]["items"][1]
    /\ HasNullAmongValues(properties["items"][1]["items"][1])
    /\ LET reduced == filtered_properties[1]["items"][1]["items"][1]
       IN  /\ "enum" \in DOMAIN reduced
           /\ Len(reduced["enum"][1]) > 0
           /\ \A i \in 1..Len(reduced["enum"][1]) : reduced["enum"][1][i] # "null"

(***************************************************************************)
(* Claims about start-up (under Spec)                                      *)
(***************************************************************************)
\* The configuration has been loaded (the process neither waits nor has exited).
PolicyLoaded == pc \in { "loaded", "registering", "serving", "crashed" }

\* The names of the discovered CRDs.
Discovered == { crd_list[i].name : i \in 1..Len(crd_list) }

\* The operation kinds of the tools registered for a CRD.
RegisteredKinds(name) == { tools[t].op : t \in { u \in DOMAIN tools : tools[u].crd = name } }

FiveKinds == { "docs", "list", "get", "create", "update" }

\* The entries of allowed_crds in the configuration file, when it is a list.
ConfiguredCrdEntries ==
    IF /\ args_config.kind = "yaml"
       /\ args_config.doc.shape = "mapping"
       /\ args_config.doc.allowed_crds.shape = "list"
    THEN args_config.doc.allowed_crds.entries
    ELSE << >>

\* Entry i is a mapping that names the CRD.
NamesCrd(i, name) ==
    /\ ConfiguredCrdEntries[i].shape = "mapping"
    /\ ConfiguredCrdEntries[i].name = Some(name)

\* The CRD names the entries of the file give.
ConfiguredCrdNames ==
    { ConfiguredCrdEntries[i].name[1] :
        i \in { j \in 1..Len(ConfiguredCrdEntries) :
                   /\ ConfiguredCrdEntries[j].shape = "mapping"
                   /\ ConfiguredCrdEntries[j].name # None } }

\* Entry i is written with an empty list of operation kinds.
HasEmptyMethods(i) == ConfiguredCrdEntries[i].methods = YamlList(<< >>)

LastEntryIsEmpty(name) ==
    \E i \in 1..Len(ConfiguredCrdEntries) :
        /\ NamesCrd(i, name)
        /\ HasEmptyMethods(i)
        /\ \A j \in (i + 1)..Len(ConfiguredCrdEntries) : ~NamesCrd(j, name)

DefaultKinds(name) ==
    CASE name = "agents.agent-install.openshift.io" -> { "list", "get", "update" }
      [] name = "clusterimagesets.hive.openshift.io" -> { "create", "get" }
      [] OTHER -> {}

MalformedField(field) ==
    \/ field.shape \in { "null", "scalar" }
    \/ /\ field.shape = "list"
       /\ \E i \in 1..Len(field.entries) :
              \/ field.entries[i].shape # "mapping"
              \/ field.entries[i].name = None

\* The configuration file is unreadable, unparseable or malformed.
Malformed(file) ==
    \/ file.kind \in { "missing", "unreadable", "invalid_yaml" }
    \/ /\ file.kind = "yaml"
       /\ \/ file.doc.shape = "scalar"
          \/ /\ file.doc.shape = "mapping"
             /\ \/ file.doc.other_keys /\ file.doc.allowed_crds = Absent
                                       /\ file.doc.allowed_groups = Absent
                \/ MalformedField(file.doc.allowed_crds)
                \/ MalformedField(file.doc.allowed_groups)

\* C9 as stated: with an unreadable, unparseable or malformed configuration
\* file, start-up aborts before the registration pass runs: the process never
\* registers or serves, and no tool is ever in the table.
C9_MalformedConfigAborts ==
    Malformed(args_config) => (pc \notin { "registering", "serving" } /\ DOMAIN tools = {})

(***************************************************************************)
(* Claims about the tool functions (under SpecCall)                        *)
(***************************************************************************)
\* The CRD the called function was built for.
CalledCrd == CrdNamed(call.crd)

\* The call has run to its end.
CallDone == result # NoResult

CreateCalled ==
    CallDone /\ call.fn \in { "get_namespaced_create_function", "get_cluster_create_function" }

\* The body the claim describes, for the metadata given.
ExpectedBody(metadata) ==
    [ apiVersion |-> << CalledCrd.group, "/", get_preferred_version(CalledCrd.versions) >>,
      kind |-> CalledCrd.kind,
      metadata |-> metadata,
      spec |-> call.arguments.kwargs ]

\* C12: for a Namespaced CRD, create invoked with name N, namespace NS and spec
\* properties P submits exactly the body {apiVersion: group/version, kind,
\* metadata: {name: N, namespace: NS}, spec: P} to the namespaced create
\* endpoint for NS; for a Cluster-scoped CRD the metadata holds only the name
\* and the cluster-scoped create endpoint is used. P is forwarded verbatim. (A
\* call whose client cannot be built submits nothing.)
C12_CreateBodyVerbatim ==
    CreateCalled =>
        IF cluster.kind = "ConfigException" THEN request = NoRequest
        ELSE IF CalledCrd.scope = "Namespaced"
        THEN request =
                 [ endpoint |-> "create_namespaced_custom_object",
                   group |-> CalledCrd.group,
                   version |-> get_preferred_version(CalledCrd.versions),
                   plural |-> CalledCrd.plural,
                   namespace |-> call.arguments.namespace,
                   body |-> ExpectedBody([ name |-> call.arguments.name,
                                           namespace |-> call.arguments.namespace ]) ]
        ELSE request =
                 [ endpoint |-> "create_cluster_custom_object",
                   group |-> CalledCrd.group,
                   version |-> get_preferred_version(CalledCrd.versions),
                   plural |-> CalledCrd.plural,
                   body |-> ExpectedBody([ name |-> call.arguments.name ]) ]

\* C12's case: create of widget "b" in namespace "ns" with two spec properties,
\* one of them the falsy 0: the body went to the namespaced endpoint for "ns"
\* with exactly these two properties, and the cluster created the object.
C12_Witness ==
    /\ CreateCalled
    /\ call.crd = "widgets.example.io"
    /\ call.arguments = [ name |-> "b", namespace |-> "ns",
                          kwargs |-> [ size |-> "0", paused |-> "false" ] ]
    /\ request.endpoint = "create_namespaced_custom_object"
    /\ request.namespace = "ns"
    /\ request.body.metadata = [ name |-> "b", namespace |-> "ns" ]
    /\ request.body.spec = [ size |-> "0", paused |-> "false" ]
    /\ result.value.success

\* C13 as stated: create always returns a structured result: {success: true,
\* resource} when the cluster returns the created object; success=false with
\* api_error=true and details holding status, reason and body when the cluster
\* call raises a Kubernetes API error; success=false with api_error=false when
\* any other error is raised. Every failure result carries the api_error flag,
\* and no result reports both success and an error.
C13_CreateResultStructured ==
    CreateCalled =>
        /\ result.status = "returned"
        /\ "success" \in DOMAIN result.value
        /\ (cluster.kind = "ok" /\ cluster.reply = "object")
               => /\ DOMAIN result.value = { "success", "resource" }
                  /\ result.value.success
                  /\ result.value.resource.metadata.name = call.arguments.name
        /\ cluster.kind = "ApiException"
               => /\ ~result.value.success
                  /\ "api_error" \in DOMAIN result.value
                  /\ result.value.api_error
                  /\ result.value.details.status = cluster.status
                  /\ result.value.details.reason = cluster.reason
                  /\ result.value.details.body = cluster.body
        /\ cluster.kind \in { "Exception", "ConfigException" }
               => /\ ~result.value.success
                  /\ "api_error" \in DOMAIN result.value
                  /\ ~result.value.api_error
        /\ ~result.value.success => "api_error" \in DOMAIN result.value
        /\ result.value.success => "error" \notin DOMAIN result.value

GetCalled ==
    CallDone /\ call.fn \in { "get_namespaced_get_function", "get_cluster_get_function" }

\* The raw response of the get request: the resource under the requested name.
RawResponse == StoredObject(CalledCrd, request.metadata, cluster.reply)

\* C14: get on a resource whose raw response includes metadata.managedFields
\* returns the resource with that field absent and every other field of the
\* response unchanged.
C14_GetDropsManagedFields ==
    (GetCalled /\ cluster.kind = "ok" /\ "managedFields" \in DOMAIN RawResponse.metadata)
        => /\ result.status = "returned"
           /\ DOMAIN result.value = DOMAIN RawResponse
           /\ \A key \in (DOMAIN RawResponse) \ { "metadata" } :
                  result.value[key] = RawResponse[key]
           /\ DOMAIN result.value.metadata = (DOMAIN RawResponse.metadata) \ { "managedFields" }
           /\ \A key \in DOMAIN result.value.metadata :
                  result.value.metadata[key] = RawResponse.metadata[key]

\* C14's case: get of the cluster-scoped image set "a", which the cluster holds
\* with managedFields: the result has name and uid in its metadata, and its
\* spec and status.
C14_Witness ==
    /\ GetCalled
    /\ call.crd = "clusterimagesets.hive.openshift.io"
    /\ call.arguments = [ name |-> "a" ]
    /\ cluster = Answer("managed")
    /\ result.status = "returned"
    /\ DOMAIN result.value.metadata = { "name", "uid" }
    /\ result.value.metadata.name = "a"
    /\ result.value.spec = [ size |-> "3" ]
    /\ result.value.status = [ phase |-> "Ready" ]

\* C15 as stated: any cluster-reported error (not-found, conflict, validation
\* rejection) raised during a get, create or update invocation is captured and
\* returned to the caller as a structured result carrying status, reason and
\* body, distinguishable from an unexpected local error; it does not propagate
\* as an exception.
C15_ApiErrorsCaptured ==
    ( /\ CallDone
      /\ call.fn \in { "get_namespaced_get_function", "get_cluster_get_function",
                       "get_namespaced_create_function", "get_cluster_create_function",
                       "get_namespaced_update_function", "get_cluster_update_function" }
      /\ cluster.kind = "ApiException" )
        => /\ result.status = "returned"
           /\ ~result.value.success
           /\ result.value.api_error
           /\ result.value.details.status = cluster.status
           /\ result.value.details.reason = cluster.reason
           /\ result.value.details.body = cluster.body

ListCalled ==
    CallDone /\ call.fn \in { "get_namespaced_list_function", "get_cluster_list_function" }

\* C16 as stated: the list operation never fails, for a Namespaced and for a
\* Cluster-scoped CRD alike: when the cluster response has no items key it
\* returns the empty sequence, and when the cluster call raises any transport
\* or API error it returns the empty sequence instead of propagating the error.
\* (Stated for the calls that pass a namespace and reach the cluster call.)
C16_ListNeverFails ==
    ( /\ ListCalled
      /\ "namespace" \in DOMAIN call.arguments
      /\ cluster.kind \in { "ok", "ApiException", "Exception" } )
        => /\ result.status = "returned"
           /\ (cluster.kind = "ok" /\ cluster.reply = "no_items") => result.value = << >>
           /\ cluster.kind \in { "ApiException", "Exception" } => result.value = << >>

(***************************************************************************)
(* Claims about the registry and the registered tools (under Spec)         *)
(***************************************************************************)
\* The registration loop has been through the CRD at position i of crd_list.
Processed(i) == pc \in { "registering", "serving", "crashed" } /\ i < next_crd

\* The policy permits the operation kind for the CRD.
Permitted(method, crd) ==
    InList(method, get_effective_methods(crd.name, crd.group, allowed_crds, allowed_groups))

\* The names of the tools of an operation kind registered for a CRD.
ToolsOf(name, op) == { t \in DOMAIN tools : tools[t].crd = name /\ tools[t].op = op }

\* C17 as stated: for a Namespaced CRD the list operation requires a namespace;
\* for a Cluster-scoped CRD the list operation is registered with a parameter
\* schema that has no namespace parameter (and can be invoked without one).
C17_ListNamespaceByScope ==
    \A i \in 1..Len(crd_list) :
        (Processed(i) /\ Permitted("list", crd_list[i]))
            => \E t \in ToolsOf(crd_list[i].name, "list") :
                   IF crd_list[i].scope = "Namespaced"
                   THEN /\ "namespace" \in DOMAIN tools[t].parameters["properties"][1]
                        /\ InList("namespace", tools[t].parameters["required"][1])
                   ELSE "namespace" \notin DOMAIN tools[t].parameters["properties"][1]

\* A call of a docs tool has run to its end.
DocsCalled == pc = "serving" /\ call.fn = "add_doc.fn"

\* The CRD of the tool being called.
ServedCrd == CrdNamed(call.crd)

\* The reduced schema of the spec of the resolved version of that CRD.
ReducedSpecSchema == filter_properties(SpecSchema(ServedCrd), {})

\* C18 as stated: the docs operation makes no cluster call and returns exactly
\* the reduced schema of the CRD's spec, i.e. the result of filter_properties on
\* the spec schema of the resolved version, with nothing added or replaced.
C18_DocsReturnsReducedSchema ==
    DocsCalled
        => /\ request = NoRequest
           /\ result.status = "returned"
           /\ result.value = ReducedSpecSchema

\* C18 amended: the docs operation makes no cluster call and returns, on every
\* invocation, the reduced schema of the CRD's spec with its description entry
\* set to the description of the resolved version's whole schema (None when it
\* has none): every other entry is that of the reduced spec schema.
C18_DocsReturnsSchemaWithCrdDescription ==
    DocsCalled
        => /\ request = NoRequest
           /\ result.status = "returned"
           /\ DOMAIN result.value = (DOMAIN ReducedSpecSchema) \cup { "description" }
           /\ result.value["description"] = PreferredSchema(ServedCrd).description
           /\ \A key \in (DOMAIN ReducedSpecSchema) \ { "description" } :
                  result.value[key] = ReducedSpecSchema[key]

\* C18's case: the docs tool of the Agent CRD is called. Its spec schema has
\* no description and a hyperthreading property: the result has the CRD's
\* description and the approved property only.
C18_Witness ==
    /\ DocsCalled
    /\ call.crd = "agents.agent-install.openshift.io"
    /\ "description" \notin DOMAIN ReducedSpecSchema
    /\ result.value["description"] = Some(ShortText)
    /\ DOMAIN result.value["properties"][1] = { "approved" }

\* "{verb}_": the operation kind and an underscore.
VerbPrefix(op) ==
    CASE op = "docs" -> "docs_"
      [] op = "list" -> "list_"
      [] op = "get" -> "get_"
      [] op = "create" -> "create_"
      [] op = "update" -> "update_"

\* The kind of the CRD a tool was registered for, lowercased.
LowerKindOf(t) == Lower(CrdNamed(tools[t].crd).kind)

\* C19 as stated: every registered operation is exposed under the name
\* {verb}_{kind lowercased}, where verb is the operation kind (docs, list, get,
\* create, update) and kind is the CRD's kind.
C19_NamedVerbKind ==
    \A t \in DOMAIN tools : t = << VerbPrefix(tools[t].op), LowerKindOf(t), "" >>

\* C19 amended: every registered list, get, create or update operation is
\* exposed under the name {verb}_{kind lowercased}; the docs operation is
\* exposed under the name get_{kind lowercased}_documentation.
C19_NamedVerbKindOrDocumentation ==
    \A t \in DOMAIN tools :
        t = IF tools[t].op = "docs" THEN << "get_", LowerKindOf(t), "_documentation" >>
            ELSE << VerbPrefix(tools[t].op), LowerKindOf(t), "" >>

\* C19's case: the server runs with all five tools of the Widget CRD: its get
\* tool is get_widget and its docs tool get_widget_documentation.
C19_Witness ==
    /\ pc = "serving"
    /\ ToolsOf("widgets.example.io", "docs") = { << "get_", "widget", "_documentation" >> }
    /\ ToolsOf("widgets.example.io", "get") = { << "get_", "widget", "" >> }
    /\ ToolsOf("widgets.example.io", "list") = { << "list_", "widget", "" >> }
    /\ ToolsOf("widgets.example.io", "create") = { << "create_", "widget", "" >> }
    /\ ToolsOf("widgets.example.io", "update") = { << "update_", "widget", "" >> }

\* Ready: mcp_server.run is dispatching. Building: everything before it.
Ready == pc = "serving"

\* The registration pass has been through every discovered CRD.
PassFinished == pc = "registering" /\ next_crd > Len(crd_list)

\* C20: the registry moves from Building to Ready once and one way: the server
\* starts dispatching operations only after the registration pass has finished
\* (Ready is entered from the end of the pass only, and a call is dispatched in
\* Ready only), and after Ready the process stays Ready and no entry of the
\* operation table is added, removed or replaced.
C20_ReadyOnceTableFrozen ==
    [][ /\ (~Ready /\ Ready') => PassFinished
        /\ Ready => (Ready' /\ tools' = tools)
        /\ call' # NoCall => (Ready /\ Ready') ]_vars

\* C20's case: two CRDs were discovered, the pass registered tools for both,
\* the server runs and has dispatched a call to one of them.
C20_Witness ==
    /\ Ready
    /\ Len(crd_list) = 2
    /\ next_crd = 3
    /\ \A i \in 1..2 : ToolsOf(crd_list[i].name, "get") # {}
    /\ call # NoCall
    /\ result.status = "returned"

\* The effective method list of a discovered CRD, by its name.
EffectiveMethodsOf(name) ==
    get_effective_methods(name, CrdNamed(name).group, allowed_crds, allowed_groups)

\* C21: every tool in the operation table belongs to a discovered CRD and to an
\* operation kind contained in that CRD's effective method set; a CRD whose
\* effective method set is empty contributes no tool, and a method name outside
\* {docs, list, get, create, update} never produces a tool. (It holds of the
\* table at every moment, and so after the registration pass.)
C21_ToolsWithinPolicy ==
    /\ \A t \in DOMAIN tools :
           /\ tools[t].crd \in Discovered
           /\ InList(tools[t].op, EffectiveMethodsOf(tools[t].crd))
           /\ tools[t].op \in { "docs", "list", "get", "create", "update" }
    /\ \A name \in Discovered :
           (PolicyLoaded /\ EffectiveMethodsOf(name) = << >>) => RegisteredKinds(name) = {}

\* C21's case: the pass is over and the server runs. The policy names widgets
\* with docs, create and the unknown method watch; widgets and agents were
\* discovered: widgets has its docs and create tools and nothing else, agents
\* (no entry, so an empty method set) has none.
C21_Witness ==
    /\ pc = "serving"
    /\ "widgets.example.io" \in DOMAIN allowed_crds
    /\ allowed_crds["widgets.example.io"] = << "docs", "create", "watch" >>
    /\ { "widgets.example.io", "agents.agent-install.openshift.io" } \subseteq Discovered
    /\ EffectiveMethodsOf("agents.agent-install.openshift.io") = << >>
    /\ RegisteredKinds("widgets.example.io") = { "docs", "create" }
    /\ RegisteredKinds("agents.agent-install.openshift.io") = {}
    /\ Cardinality(DOMAIN tools) = 2

\* C22 as stated: for every set of discovered CRDs and every policy, the
\* registration pass processes each CRD to completion and terminates normally:
\* a single CRD never aborts the pass. (The process dies with an uncaught
\* exception only when the CRDs cannot be listed at all, before the loop.)
C22_PassNeverAborts ==
    pc = "crashed" => next_crd = 0

\* C24 as stated: distinct (CRD, operation kind) pairs are registered under
\* distinct tool names, so no registration collides with or replaces another
\* entry of the operation table, also when two discovered CRDs of different
\* groups share a kind: once the pass is over, every discovered CRD has an entry
\* of its own for every operation kind its policy permits.
C24_EveryPairKeepsItsEntry ==
    pc = "serving" =>
        \A name \in Discovered, op \in { "docs", "list", "get", "create", "update" } :
            InList(op, EffectiveMethodsOf(name)) =>
                \E t \in DOMAIN tools : tools[t].crd = name /\ tools[t].op = op

(***************************************************************************)
(* The values an enum keeps (under SpecFilter)                             *)
(***************************************************************************)
NotNull(v) == v # "null"

\* Every raw node with an enum list, at the root or below it, has a reduced node
\* whose enum is the raw list without its null entries, in the same order. The
\* walk follows the reduced tree, as NullsStripped does.
RECURSIVE OnlyNullsRemoved(_, _)
OnlyNullsRemoved(raw, reduced) ==
    /\ ("enum" \in DOMAIN raw /\ raw["enum"] # None)
           => /\ "enum" \in DOMAIN reduced
              /\ reduced["enum"] = Some(SelectSeq(raw["enum"][1], NotNull))
    /\ "items" \in DOMAIN reduced
           => OnlyNullsRemoved(raw["items"][1], reduced["items"][1])
    /\ "properties" \in DOMAIN reduced
           => \A name \in DOMAIN reduced["properties"][1] :
                  OnlyNullsRemoved(raw["properties"][1][name], reduced["properties"][1][name])

\* C23 as stated: filter_properties keeps every non-null enum value in its
\* original order: the reduced enum equals the raw enum with only the null
\* entries removed, so that 0, false and the empty string remain choosable.
C23_EnumKeepsNonNullValues ==
    filtered_properties # NotCalled => OnlyNullsRemoved(properties, filtered_properties[1])

====
